---- MODULE Spec2Model ----
(***************************************************************************)
(* Model of the Sanctify AI proxy (src/unnamed/part_001): the in-memory    *)
(* rateLimitStore, checkRateLimit, the hourly cleanup timer, the           *)
(* /rate-limit-status endpoint, and the POST /ai/chat handler with its     *)
(* topic detection.                                                        *)
(* Times are milliseconds since the epoch, as returned by Date.now().      *)
(***************************************************************************)
EXTENDS Integers, FiniteSets, Sequences, TLC

VARIABLES
    now,         \* the wall clock read by Date.now()
    store,       \* rateLimitStore: a Map userKey -> userData
    nextSweep,   \* time at which the setInterval cleanup fires next
    calls,       \* number of checkRateLimit calls made so far
    last,        \* the operation performed last and what it returned
    accWin,      \* per key: short window of the last accepted call, and how many were accepted in it
    accDay,      \* per key: day of the last accepted call, accepted count and charged cost in it
    seen,        \* per key: the status answer given at the current time since the last evaluate
    env,         \* what the environment sends: caller ids, clock readings
    reqs,        \* per /ai/chat request being handled: where it is in checkRateLimit, with its locals
    running,     \* the task the event loop is executing, None between tasks
    http,        \* the /ai/chat request being handled: its body, the handler's locals, its reply
    denied       \* per key: the rejection its last call got, and the one its call before that got

vars == <<now, store, nextSweep, calls, last, accWin, accDay, seen, env, reqs, running, http,
          denied>>

----------------------------------------------------------------------------
(* RATE_LIMITS and the other literals of the source *)

WindowMs == 120000
MaxRequests == 20
DailyLimit == 75
\* a lower daily cost limit
DailyCostLimitSixHundred == 6 * 100

DailyCostLimit == 700
EstimatedCost == 9
DayMs == 86400000
HourMs == 3600000
MsPerSecond == 1000

----------------------------------------------------------------------------
(* Bounds of the model *)

MaxWindows == 1      \* short windows after the first in which calls arrive (Spec)
MaxHours == 2        \* firings of the cleanup timer that are followed (Spec)
MaxCalls == 6        \* checkRateLimit calls per behaviour (Spec)
MaxWindowsDay == 3   \* as MaxWindows, for SpecDay
MaxHoursDay == 3     \* as MaxHours, for SpecDay
MaxHoursConc == 2    \* as MaxHours, for SpecConc
MaxInFlight == 2     \* /ai/chat requests handled at the same time (SpecConc)

\* the process starts two hours and one short window before a day boundary
StartTime == 2 * DayMs - 2 * HourMs - WindowMs

TimePoints(nw, nh, offs) ==
    {StartTime + k * WindowMs + o : k \in 0..nw, o \in offs}
        \cup {StartTime + h * HourMs : h \in 1..nh}
        \cup {2 * DayMs}

Keys == {"anonymous", "u1"}

----------------------------------------------------------------------------
(* checkRateLimit *)

\* the division is not rounded down to the window boundary
WindowStartUnaligned(t) == t

WindowStartOf(t) == (t \div WindowMs) * WindowMs

DailyStartOf(t) == (t \div DayMs) * DayMs

\* the || 'anonymous' fallback left out
UserKeyRaw(userId) == userId

UserKey(userId) == IF userId = "" THEN "anonymous" ELSE userId

DefaultUserData ==
    [windowStart |-> 0, requests |-> 0, dailyStart |-> 0,
     dailyRequests |-> 0, dailyCost |-> 0]

GetUserData(st, userKey) ==
    IF userKey \in DOMAIN st THEN st[userKey] ELSE DefaultUserData

\* the window start is moved on but the counter is kept
ResetWindowKeepsCount(ud, t) ==
    IF WindowStartOf(t) > ud.windowStart
    THEN [ud EXCEPT !.windowStart = WindowStartOf(t)]
    ELSE ud

ResetWindow(ud, t) ==
    IF WindowStartOf(t) > ud.windowStart
    THEN [ud EXCEPT !.windowStart = WindowStartOf(t), !.requests = 0]
    ELSE ud

\* the daily request count is reset but the cost is kept
ResetDailyKeepsCost(ud, t) ==
    IF DailyStartOf(t) > ud.dailyStart
    THEN [ud EXCEPT !.dailyStart = DailyStartOf(t), !.dailyRequests = 0]
    ELSE ud

ResetDaily(ud, t) ==
    IF DailyStartOf(t) > ud.dailyStart
    THEN [ud EXCEPT !.dailyStart = DailyStartOf(t), !.dailyRequests = 0, !.dailyCost = 0]
    ELSE ud

Rolled(ud, t) == ResetDaily(ResetWindow(ud, t), t)

\* Math.ceil(a / b) for a >= 0, b > 0
CeilDiv(a, b) == (a + b - 1) \div b

NoValue == -1

Allowed ==
    [allowed |-> TRUE, error |-> "none", rateLimitExceeded |-> FALSE,
     dailyLimitExceeded |-> FALSE, retryAfter |-> NoValue]

\* minutes for seconds
RemainingTimeInMinutes(t) == CeilDiv(WindowStartOf(t) + WindowMs - t, 60 * MsPerSecond)

\* Math.floor for Math.ceil
RemainingTimeFloor(t) == (WindowStartOf(t) + WindowMs - t) \div MsPerSecond

RemainingTime(t) == CeilDiv(WindowStartOf(t) + WindowMs - t, MsPerSecond)

\* > for >= in the burst check
DecisionOffByOne(ud, t) ==
    IF ud.requests > MaxRequests
    THEN [allowed |-> FALSE, error |-> "too quickly", rateLimitExceeded |-> TRUE,
          dailyLimitExceeded |-> FALSE, retryAfter |-> RemainingTime(t)]
    ELSE IF ud.dailyRequests >= DailyLimit
    THEN [allowed |-> FALSE, error |-> "daily message limit", rateLimitExceeded |-> FALSE,
          dailyLimitExceeded |-> TRUE, retryAfter |-> NoValue]
    ELSE IF ud.dailyCost + EstimatedCost > DailyCostLimit
    THEN [allowed |-> FALSE, error |-> "daily usage limit", rateLimitExceeded |-> FALSE,
          dailyLimitExceeded |-> TRUE, retryAfter |-> NoValue]
    ELSE Allowed

\* the daily request check made before the burst check
DecisionDailyFirst(ud, t) ==
    IF ud.dailyRequests >= DailyLimit
    THEN [allowed |-> FALSE, error |-> "daily message limit", rateLimitExceeded |-> FALSE,
          dailyLimitExceeded |-> TRUE, retryAfter |-> NoValue]
    ELSE IF ud.requests >= MaxRequests
    THEN [allowed |-> FALSE, error |-> "too quickly", rateLimitExceeded |-> TRUE,
          dailyLimitExceeded |-> FALSE, retryAfter |-> RemainingTime(t)]
    ELSE IF ud.dailyCost + EstimatedCost > DailyCostLimit
    THEN [allowed |-> FALSE, error |-> "daily usage limit", rateLimitExceeded |-> FALSE,
          dailyLimitExceeded |-> TRUE, retryAfter |-> NoValue]
    ELSE Allowed

\* the daily request check left out
DecisionWithoutDailyCheck(ud, t) ==
    IF ud.requests >= MaxRequests
    THEN [allowed |-> FALSE, error |-> "too quickly", rateLimitExceeded |-> TRUE,
          dailyLimitExceeded |-> FALSE, retryAfter |-> RemainingTime(t)]
    ELSE IF ud.dailyCost + EstimatedCost > DailyCostLimit
    THEN [allowed |-> FALSE, error |-> "daily usage limit", rateLimitExceeded |-> FALSE,
          dailyLimitExceeded |-> TRUE, retryAfter |-> NoValue]
    ELSE Allowed

\* the checks of lines 65-96, in the order of the source
Decision(ud, t) ==
    IF ud.requests >= MaxRequests
    THEN [allowed |-> FALSE, error |-> "too quickly", rateLimitExceeded |-> TRUE,
          dailyLimitExceeded |-> FALSE, retryAfter |-> RemainingTime(t)]
    ELSE IF ud.dailyRequests >= DailyLimit
    THEN [allowed |-> FALSE, error |-> "daily message limit", rateLimitExceeded |-> FALSE,
          dailyLimitExceeded |-> TRUE, retryAfter |-> NoValue]
    ELSE IF ud.dailyCost + EstimatedCost > DailyCostLimit
    THEN [allowed |-> FALSE, error |-> "daily usage limit", rateLimitExceeded |-> FALSE,
          dailyLimitExceeded |-> TRUE, retryAfter |-> NoValue]
    ELSE Allowed

\* the cost of the request is not charged
IncrementedWithoutCost(ud) ==
    [ud EXCEPT !.requests = @ + 1, !.dailyRequests = @ + 1]

Incremented(ud) ==
    [ud EXCEPT !.requests = @ + 1, !.dailyRequests = @ + 1,
               !.dailyCost = @ + EstimatedCost]

\* rateLimitStore.set(userKey, userData)
MapSet(st, k, v) == [x \in DOMAIN st \cup {k} |-> IF x = k THEN v ELSE st[x]]

\* userData taken as a copy of the stored object: a rejected call stores nothing
StoreOnRejectCopy(st, userKey, ud) == st

\* A rejected call returns before rateLimitStore.set; userData is the stored
\* object itself when the key is present, so the resets were made in place.
StoreOnReject(st, userKey, ud) ==
    IF userKey \in DOMAIN st THEN MapSet(st, userKey, ud) ELSE st

StoreOnAccept(st, userKey, ud) == MapSet(st, userKey, Incremented(ud))

\* the store a checkRateLimit(userId) call at time t leaves behind
StoreAfter(st, userId, t) ==
    LET k == UserKey(userId)
        ud == Rolled(GetUserData(st, k), t)
    IN  IF Decision(ud, t).allowed
        THEN StoreOnAccept(st, k, ud)
        ELSE StoreOnReject(st, k, ud)

\* what checkRateLimit(userId) returns at time t
ResultOf(st, userId, t) == Decision(Rolled(GetUserData(st, UserKey(userId)), t), t)

----------------------------------------------------------------------------
(* the cleanup timer, lines 111-125 *)

\* || for &&
IsStaleEither(ud, t) == ud.windowStart < t - HourMs \/ ud.dailyStart < t - HourMs

IsStale(ud, t) == ud.windowStart < t - HourMs /\ ud.dailyStart < t - HourMs

StaleKeys(st, t) == {k \in DOMAIN st : IsStale(st[k], t)}

Swept(st, t) == [k \in DOMAIN st \ StaleKeys(st, t) |-> st[k]]

----------------------------------------------------------------------------
(* GET /rate-limit-status/:userId? *)

Max(a, b) == IF a >= b THEN a ELSE b

StatusKey(userId) == IF userId = "" THEN "anonymous" ELSE userId

NoData ==
    [status |-> "No rate limit data", requests |-> NoValue, windowTimeLeft |-> NoValue,
     dailyRequests |-> NoValue, cost |-> NoValue, dailyTimeLeft |-> NoValue]

\* Math.ceil(Math.max(0, x / 1000)) = ceil(max(0, x) / 1000)
StatusOf(st, userId, t) ==
    LET k == StatusKey(userId) IN
    IF k \notin DOMAIN st THEN NoData
    ELSE [status |-> "data",
          requests |-> st[k].requests,
          windowTimeLeft |-> CeilDiv(Max(0, st[k].windowStart + WindowMs - t), MsPerSecond),
          dailyRequests |-> st[k].dailyRequests,
          cost |-> st[k].dailyCost,
          dailyTimeLeft |-> CeilDiv(Max(0, st[k].dailyStart + DayMs - t), MsPerSecond)]

----------------------------------------------------------------------------
(* Bookkeeping about the behaviour, read by the properties only *)

NoCall == [op |-> "none", userId |-> "", had |-> FALSE, before |-> DefaultUserData,
           res |-> Allowed, removed |-> {}, snap |-> NoData, again |-> FALSE]

\* accepted calls of the key in the short window / day that contains t
CountIn(acc, start) == IF acc.start = start THEN acc.n ELSE 0

CostIn(acc, start) == IF acc.start = start THEN acc.cost ELSE 0

NoAcc == [start |-> 0, n |-> 0, cost |-> 0]

\* no call of the key was rejected
NoDenial == [kind |-> "none", at |-> 0, retryAfter |-> NoValue,
             prevKind |-> "none", prevAt |-> 0, prevRetryAfter |-> NoValue]

\* the bookkeeping of a key after a call at time t that returned res
DenialAfter(d, res, t) ==
    [kind |-> IF res.allowed THEN "none"
              ELSE IF res.rateLimitExceeded THEN "burst" ELSE "daily",
     at |-> IF res.allowed THEN 0 ELSE t,
     retryAfter |-> res.retryAfter,
     prevKind |-> d.kind, prevAt |-> d.at, prevRetryAfter |-> d.retryAfter]

NotSeen == [asked |-> FALSE, swept |-> FALSE, snap |-> NoData]

----------------------------------------------------------------------------
(* The /ai/chat handler as a task of the event loop *)

ReqIds == 1..MaxInFlight

None == 0

NoRequest == [pc |-> "idle", userId |-> "", t |-> 0, ud |-> DefaultUserData,
              ref |-> FALSE, res |-> Allowed]

\* between the lookup of line 40 and the return of checkRateLimit
InCheckRateLimit == {"lookup", "reset", "check", "store"}

\* checkRateLimit written with an await after each statement
YieldsAtEach(pc) == TRUE

\* A task keeps the event loop until it awaits or returns. checkRateLimit has
\* no await: the handler first awaits at the fetch of the model call, and
\* returns when it replies.
YieldsAt(pc) == pc \in {"await", "idle"}

----------------------------------------------------------------------------
(* Values of the /ai/chat handler *)

\* JavaScript values a JSON body can hold in the message field
Str(s) == [type |-> "string", str |-> s]
Num(n) == [type |-> "number", num |-> n]
Undefined == [type |-> "undefined"]
Null == [type |-> "null"]
EmptyObject == [type |-> "object"]

\* what reply.code(..).send(..) has sent; code None while nothing is sent
NoReply == [code |-> None, error |-> "", rateLimitExceeded |-> FALSE,
            dailyLimitExceeded |-> FALSE, retryAfter |-> NoValue, by |-> ""]

\* request.body of a request without a body
NoBody == [present |-> FALSE, message |-> Undefined, history |-> "absent", topic |-> "",
           userId |-> ""]

\* the request answered before the current one, if its topic was detected
NoPrev == [classified |-> FALSE, body |-> NoBody, finalTopic |-> "", prompt |-> ""]

\* no request is being handled; finalTopic "" is the variable before line 214,
\* usage the store as it was when the request arrived
NoHttp == [pc |-> "idle", body |-> NoBody, checked |-> FALSE, rateLimitResult |-> Allowed,
           finalTopic |-> "", threw |-> FALSE, prompt |-> "", fetched |-> FALSE,
           outcome |-> "", reply |-> NoReply, prev |-> NoPrev, usage |-> << >>]

----------------------------------------------------------------------------
(* The state machine *)

InitFrom(e, h) ==
    /\ now = StartTime
    /\ store = << >>
    /\ nextSweep = StartTime + HourMs
    /\ calls = 0
    /\ last = NoCall
    /\ accWin = [k \in Keys |-> NoAcc]
    /\ accDay = [k \in Keys |-> NoAcc]
    /\ seen = [k \in Keys |-> NotSeen]
    /\ env = e
    /\ reqs = [r \in ReqIds |-> NoRequest]
    /\ running = None
    /\ http = h
    /\ denied = [k \in Keys |-> NoDenial]

\* no /ai/chat request body is looked at: only checkRateLimit is called
InitWith(ids, times) ==
    InitFrom([ids |-> ids, times |-> times, bodies |-> {}, apiKey |-> "sk-test"], NoHttp)

\* several callers, calls early and late in a short window, a few calls
Init == InitWith({"", "anonymous", "u1"}, TimePoints(MaxWindows, MaxHours, {0, WindowMs - 1}))

\* one caller over the windows of a day, any number of calls
InitDay == InitWith({"u1"}, TimePoints(MaxWindowsDay, MaxHoursDay, {0, WindowMs - 1}))

\* Date.now() moves on; the cleanup timer fires when it is due
Tick ==
    /\ \E t \in env.times : t > now /\ t <= nextSweep /\ now' = t
    /\ last' = [NoCall EXCEPT !.op = "tick"]
    /\ seen' = [k \in Keys |-> NotSeen]
    /\ UNCHANGED <<store, nextSweep, calls, accWin, accDay, env, reqs, running, http, denied>>

\* one call of checkRateLimit(userId), made by the /ai/chat handler
Evaluate(userId) ==
    LET k == UserKey(userId)
        res == ResultOf(store, userId, now)
        ws == WindowStartOf(now)
        ds == DailyStartOf(now)
    IN  /\ store' = StoreAfter(store, userId, now)
        /\ last' = [NoCall EXCEPT !.op = "evaluate", !.userId = userId,
                                  !.had = (k \in DOMAIN store),
                                  !.before = GetUserData(store, k),
                                  !.res = res]
        /\ accWin' = IF res.allowed
                     THEN [accWin EXCEPT ![k] = [start |-> ws, n |-> CountIn(@, ws) + 1, cost |-> 0]]
                     ELSE accWin
        /\ accDay' = IF res.allowed
                     THEN [accDay EXCEPT ![k] = [start |-> ds, n |-> CountIn(@, ds) + 1,
                                                 cost |-> CostIn(@, ds) + EstimatedCost]]
                     ELSE accDay
        /\ seen' = [x \in Keys |-> NotSeen]
        /\ denied' = [denied EXCEPT ![k] = DenialAfter(@, res, now)]
        /\ UNCHANGED <<now, nextSweep, env, reqs, running>>

\* one run of the setInterval callback
Sweep ==
    /\ now >= nextSweep
    /\ nextSweep' = nextSweep + HourMs
    /\ store' = Swept(store, now)
    /\ last' = [NoCall EXCEPT !.op = "sweep", !.removed = StaleKeys(store, now)]
    /\ seen' = [k \in Keys |-> IF seen[k].asked THEN [seen[k] EXCEPT !.swept = TRUE]
                                ELSE seen[k]]
    /\ UNCHANGED <<now, calls, accWin, accDay, env, reqs, running, http, denied>>

\* the lookup written as in checkRateLimit, with the record stored back
StatusCreates(userId) ==
    LET k == StatusKey(userId)
        snap == StatusOf(store, userId, now)
    IN  /\ last' = [NoCall EXCEPT !.op = "status", !.userId = userId,
                                  !.had = (k \in DOMAIN store),
                                  !.before = GetUserData(store, k), !.snap = snap,
                                  !.again = (seen[k].asked /\ ~seen[k].swept)]
        /\ seen' = [seen EXCEPT ![k] = [asked |-> TRUE, swept |-> FALSE, snap |-> snap]]
        /\ store' = MapSet(store, k, GetUserData(store, k))
        /\ UNCHANGED <<now, nextSweep, calls, accWin, accDay, env, reqs, running, http, denied>>

\* one GET /rate-limit-status/:userId?
Status(userId) ==
    LET k == StatusKey(userId)
        snap == StatusOf(store, userId, now)
    IN  /\ last' = [NoCall EXCEPT !.op = "status", !.userId = userId,
                                  !.had = (k \in DOMAIN store),
                                  !.before = GetUserData(store, k), !.snap = snap,
                                  !.again = (seen[k].asked /\ ~seen[k].swept)]
        /\ seen' = [seen EXCEPT ![k] = [asked |-> TRUE, swept |-> FALSE, snap |-> snap]]
        /\ UNCHANGED <<now, store, nextSweep, calls, accWin, accDay, env, reqs, running, http, denied>>

\* a bounded number of calls
Call(userId) == calls < MaxCalls /\ calls' = calls + 1 /\ Evaluate(userId) /\ UNCHANGED http

\* calls that are not counted
CallDay(userId) == calls' = calls /\ Evaluate(userId) /\ UNCHANGED http

Next ==
    \/ Tick
    \/ \E userId \in env.ids : Call(userId)
    \/ Sweep
    \/ \E userId \in env.ids : Status(userId)

NextDay ==
    \/ Tick
    \/ \E userId \in env.ids : CallDay(userId)
    \/ Sweep

Spec == Init /\ [][Next]_vars

SpecDay == InitDay /\ [][NextDay]_vars

----------------------------------------------------------------------------
(* checkRateLimit statement by statement, under the event loop *)

\* several requests in flight for one caller, hours apart or at the same time
InitConc == InitWith({"u1"}, TimePoints(0, MaxHoursConc, {0}))

\* The clock readings of the model are minutes apart and a task takes far
\* less, so the clock moves on between tasks.
TickIdle == running = None /\ Tick

\* a task runs when the event loop is free or is executing it already
MayRun(r) == running = None \/ running = r

\* the task executing after request r has moved to pc
Turn(r, pc) == IF YieldsAt(pc) THEN None ELSE r

\* lines 179-39: the handler is invoked, the body passes the validation,
\* checkRateLimit(userId) is entered and reads Date.now()
Begin(r, userId) ==
    /\ running = None
    /\ reqs[r].pc = "idle"
    /\ reqs' = [reqs EXCEPT ![r] = [NoRequest EXCEPT !.pc = "lookup", !.userId = userId,
                                                    !.t = now]]
    /\ running' = Turn(r, "lookup")
    /\ last' = [NoCall EXCEPT !.op = "begin"]
    /\ UNCHANGED <<now, store, nextSweep, calls, accWin, accDay, seen, env, http, denied>>

\* line 40: userData is the stored object, or a new one
Lookup(r) ==
    LET k == UserKey(reqs[r].userId) IN
    /\ MayRun(r)
    /\ reqs[r].pc = "lookup"
    /\ reqs' = [reqs EXCEPT ![r].pc = "reset", ![r].ud = GetUserData(store, k),
                            ![r].ref = (k \in DOMAIN store)]
    /\ running' = Turn(r, "reset")
    /\ last' = [NoCall EXCEPT !.op = "lookup"]
    /\ UNCHANGED <<now, store, nextSweep, calls, accWin, accDay, seen, env, http, denied>>

\* lines 48-59: the resets, made in the stored object when userData is one
Reset(r) ==
    LET k == UserKey(reqs[r].userId)
        ud == Rolled(reqs[r].ud, reqs[r].t)
    IN  /\ MayRun(r)
        /\ reqs[r].pc = "reset"
        /\ reqs' = [reqs EXCEPT ![r].pc = "check", ![r].ud = ud]
        /\ store' = IF reqs[r].ref /\ k \in DOMAIN store THEN MapSet(store, k, ud) ELSE store
        /\ running' = Turn(r, "check")
        /\ last' = [NoCall EXCEPT !.op = "reset"]
        /\ UNCHANGED <<now, nextSweep, calls, accWin, accDay, seen, env, http, denied>>

\* lines 65-96 and 204-212: the checks; a rejected request is answered
Check(r) ==
    LET res == Decision(reqs[r].ud, reqs[r].t)
        pc == IF res.allowed THEN "store" ELSE "idle"
    IN  /\ MayRun(r)
        /\ reqs[r].pc = "check"
        /\ reqs' = [reqs EXCEPT ![r] = IF res.allowed THEN [@ EXCEPT !.pc = pc, !.res = res]
                                       ELSE NoRequest]
        /\ running' = Turn(r, pc)
        /\ last' = [NoCall EXCEPT !.op = "check", !.res = res]
        /\ UNCHANGED <<now, store, nextSweep, calls, accWin, accDay, seen, env, http, denied>>

\* lines 98-108 and on to the await of the model call
Store(r) ==
    LET k == UserKey(reqs[r].userId)
        ws == WindowStartOf(reqs[r].t)
        ds == DailyStartOf(reqs[r].t)
    IN  /\ MayRun(r)
        /\ reqs[r].pc = "store"
        /\ reqs' = [reqs EXCEPT ![r] = [NoRequest EXCEPT !.pc = "await",
                                                        !.userId = reqs[r].userId]]
        /\ store' = StoreOnAccept(store, k, reqs[r].ud)
        /\ running' = Turn(r, "await")
        /\ last' = [NoCall EXCEPT !.op = "store"]
        /\ accWin' = [accWin EXCEPT ![k] = [start |-> ws, n |-> CountIn(@, ws) + 1, cost |-> 0]]
        /\ accDay' = [accDay EXCEPT ![k] = [start |-> ds, n |-> CountIn(@, ds) + 1,
                                            cost |-> CostIn(@, ds) + EstimatedCost]]
        /\ UNCHANGED <<now, nextSweep, calls, seen, env, http, denied>>

\* the model call has returned: the handler replies
Reply(r) ==
    /\ MayRun(r)
    /\ reqs[r].pc = "await"
    /\ reqs' = [reqs EXCEPT ![r] = NoRequest]
    /\ running' = Turn(r, "idle")
    /\ last' = [NoCall EXCEPT !.op = "reply"]
    /\ UNCHANGED <<now, store, nextSweep, calls, accWin, accDay, seen, env, http, denied>>

\* the cleanup callback is a task of its own
SweepTask == running = None /\ Sweep

NextConc ==
    \/ TickIdle
    \/ \E r \in ReqIds, userId \in env.ids : Begin(r, userId)
    \/ \E r \in ReqIds : Lookup(r)
    \/ \E r \in ReqIds : Reset(r)
    \/ \E r \in ReqIds : Check(r)
    \/ \E r \in ReqIds : Store(r)
    \/ \E r \in ReqIds : Reply(r)
    \/ SweepTask

SpecConc == InitConc /\ [][NextConc]_vars

----------------------------------------------------------------------------
(* What the properties speak about *)

WindowOf(t) == t - (t % WindowMs)

DayOf(t) == t - (t % DayMs)

Evaluated == last.op = "evaluate"

Accepted == Evaluated /\ last.res.allowed

Rejected == Evaluated /\ ~last.res.allowed

CallKey == UserKey(last.userId)

\* the caller's counters as the call saw them after the rollovers
WindowRolled == WindowOf(now) > last.before.windowStart

DayRolled == DayOf(now) > last.before.dailyStart

RolledRequests == IF WindowRolled THEN 0 ELSE last.before.requests

RolledDailyRequests == IF DayRolled THEN 0 ELSE last.before.dailyRequests

RolledDailyCost == IF DayRolled THEN 0 ELSE last.before.dailyCost

RolledWindowStart == IF WindowRolled THEN WindowOf(now) ELSE last.before.windowStart

RolledDailyStart == IF DayRolled THEN DayOf(now) ELSE last.before.dailyStart

BurstRejection == Rejected /\ last.res.rateLimitExceeded /\ last.res.error = "too quickly"

DailyRequestRejection ==
    Rejected /\ last.res.dailyLimitExceeded /\ last.res.error = "daily message limit"

DailyCostRejection ==
    Rejected /\ last.res.dailyLimitExceeded /\ last.res.error = "daily usage limit"

----------------------------------------------------------------------------
\* C1: in one short window a caller has at most MaxRequests (20) calls
\* accepted, and a call made in a window in which 20 were already accepted is
\* rejected with the burst reason (rateLimitExceeded).
C1_BurstCap ==
    /\ \A k \in Keys : accWin[k].n <= MaxRequests
    /\ (Rejected /\ CountIn(accWin[CallKey], WindowOf(now)) = MaxRequests) => BurstRejection

C1_Witness ==
    /\ BurstRejection
    /\ accWin[CallKey] = [start |-> WindowOf(now), n |-> MaxRequests, cost |-> 0]

\* C2: in one day a caller has at most DailyLimit (75) calls accepted and is
\* charged at most DailyCostLimit (700).
C2_DailyCap ==
    \A k \in Keys : accDay[k].n <= DailyLimit /\ accDay[k].cost <= DailyCostLimit

\* C3: every call returns one decision, the first that matches of: burst limit
\* (requests >= 20), daily request limit (dailyRequests >= 75), daily cost limit
\* (dailyCost + 9 > 700), acceptance.
C3_FirstMatch ==
    Evaluated =>
        /\ Cardinality({d \in {Accepted, BurstRejection, DailyRequestRejection,
                               DailyCostRejection} : d}) >= 1
        /\ ~(BurstRejection /\ last.res.dailyLimitExceeded)
        /\ ~(Accepted /\ (last.res.rateLimitExceeded \/ last.res.dailyLimitExceeded))
        /\ BurstRejection <=> RolledRequests >= MaxRequests
        /\ DailyRequestRejection <=>
               (RolledRequests < MaxRequests /\ RolledDailyRequests >= DailyLimit)
        /\ DailyCostRejection <=>
               (/\ RolledRequests < MaxRequests
                /\ RolledDailyRequests < DailyLimit
                /\ RolledDailyCost + EstimatedCost > DailyCostLimit)

C3_Witness ==
    /\ BurstRejection
    /\ RolledRequests >= MaxRequests
    /\ RolledDailyRequests >= DailyLimit

\* C4: a rejected call increments no counter of the caller's record and leaves
\* in the store the window and day rollovers it detected.
C4_RejectKeepsRollover ==
    Rejected =>
        /\ CallKey \in DOMAIN store
        /\ store[CallKey] = [windowStart |-> RolledWindowStart,
                             requests |-> RolledRequests,
                             dailyStart |-> RolledDailyStart,
                             dailyRequests |-> RolledDailyRequests,
                             dailyCost |-> RolledDailyCost]

C4_Witness ==
    /\ Rejected
    /\ WindowRolled
    /\ last.before.requests > 0
    /\ store[CallKey].windowStart = WindowOf(now)
    /\ store[CallKey].requests = 0

\* C5: an accepted call leaves the caller's record with requests and
\* dailyRequests one higher and dailyCost EstimatedCost (9) higher than the
\* values after the rollovers, and leaves every other caller's record as it was.
C5_AcceptCharges ==
    [][(last'.op = "evaluate" /\ last'.res.allowed) =>
          LET k == UserKey(last'.userId)
              old == IF k \in DOMAIN store THEN store[k] ELSE DefaultUserData
              winRolled == WindowOf(now) > old.windowStart
              dayRolled == DayOf(now) > old.dailyStart
          IN  /\ DOMAIN store' = DOMAIN store \cup {k}
              /\ store'[k].requests = (IF winRolled THEN 0 ELSE old.requests) + 1
              /\ store'[k].dailyRequests = (IF dayRolled THEN 0 ELSE old.dailyRequests) + 1
              /\ store'[k].dailyCost = (IF dayRolled THEN 0 ELSE old.dailyCost) + EstimatedCost
              /\ \A o \in DOMAIN store \ {k} : store'[o] = store[o]]_vars

C5_Witness ==
    /\ Accepted
    /\ WindowRolled
    /\ last.before.requests > 0
    /\ last.before.dailyRequests > 0
    /\ store[CallKey].requests = 1
    /\ store[CallKey].dailyRequests = last.before.dailyRequests + 1
    /\ \E o \in DOMAIN store : o # CallKey /\ store[o].requests > 0

\* C6: a call made at windowStart + WindowMs or later finds the burst counter
\* reset to 0 and the stored windowStart moved to the new boundary before the
\* limits are checked, so it is not rejected for the burst limit.
C6_WindowRollover ==
    (Evaluated /\ now >= last.before.windowStart + WindowMs) =>
        /\ ~last.res.rateLimitExceeded
        /\ store[CallKey].windowStart = WindowOf(now)
        /\ store[CallKey].requests = (IF Accepted THEN 1 ELSE 0)

C6_Witness ==
    /\ Evaluated
    /\ last.had
    /\ last.before.requests = MaxRequests
    /\ now = last.before.windowStart + WindowMs
    /\ store[CallKey].requests = 1

\* C7: the first call of a caller in a new day finds dailyRequests and
\* dailyCost reset to 0 and the stored dailyStart moved to the new day before
\* the limits are checked.
C7_DayRollover ==
    (Evaluated /\ DayOf(now) > last.before.dailyStart) =>
        /\ ~last.res.dailyLimitExceeded
        /\ store[CallKey].dailyStart = DayOf(now)
        /\ store[CallKey].dailyRequests = (IF Accepted THEN 1 ELSE 0)
        /\ store[CallKey].dailyCost = (IF Accepted THEN EstimatedCost ELSE 0)

C7_Witness ==
    /\ Evaluated
    /\ last.had
    /\ last.before.dailyRequests = DailyLimit
    /\ DayOf(now) > last.before.dailyStart
    /\ store[CallKey].dailyRequests = 1

C10_StatusIdempotent ==
    [][last'.op = "status" =>
          LET k == StatusKey(last'.userId)
          IN  /\ store' = store
              /\ seen[k].asked => last'.snap = seen[k].snap]_vars

\* C10, amended: a status call leaves the store as it was, and gives the
\* answer that the last status call for the same caller at the same time gave
\* when neither an evaluate nor a run of the cleanup was made in between.
C10_StatusReadOnly ==
    [][last'.op = "status" =>
          LET k == StatusKey(last'.userId)
          IN  /\ store' = store
              /\ (seen[k].asked /\ ~seen[k].swept) => last'.snap = seen[k].snap]_vars

C10_Witness ==
    /\ last.op = "status"
    /\ last.again
    /\ last.snap.status = "data"
    /\ \E k \in Keys : k \notin DOMAIN store /\ seen[k].asked

\* C9: whatever the interleaving of the requests being handled and of the
\* cleanup timer, a request that is between the lookup and the store write of
\* checkRateLimit holds the event loop, so no step of another request or of
\* the cleanup falls in between; the cleanup removes no record that a request
\* is evaluating; the stored counters stay within the limits and count the
\* accepted calls of the window exactly.
C9_AtomicEvaluate ==
    /\ \A r \in ReqIds : reqs[r].pc \in InCheckRateLimit => running = r
    /\ last.op = "sweep" =>
           \A r \in ReqIds : reqs[r].pc \in InCheckRateLimit =>
               UserKey(reqs[r].userId) \notin last.removed
    /\ \A k \in DOMAIN store :
           /\ store[k].requests <= MaxRequests
           /\ store[k].dailyRequests <= DailyLimit
           /\ store[k].dailyCost <= DailyCostLimit
           /\ accWin[k].start = store[k].windowStart => store[k].requests = accWin[k].n

C9_Witness ==
    \E r1, r2 \in ReqIds :
        /\ reqs[r1].pc = "check"
        /\ reqs[r1].ud.requests = MaxRequests
        /\ reqs[r2].pc = "await"
        /\ UserKey(reqs[r1].userId) = UserKey(reqs[r2].userId)
        /\ now >= nextSweep

----------------------------------------------------------------------------
(* The topic detection of the /ai/chat handler (lines 214-320)             *)

\* String.prototype.toLowerCase on the letters A-Z
UpperCaseLetters == "ABCDEFGHIJKLMNOPQRSTUVWXYZ"
LowerCaseLetters == "abcdefghijklmnopqrstuvwxyz"

LowerChar(c) ==
    IF \E i \in 1..Len(UpperCaseLetters) : SubSeq(UpperCaseLetters, i, i) = c
    THEN LET i == CHOOSE j \in 1..Len(UpperCaseLetters) : SubSeq(UpperCaseLetters, j, j) = c
         IN  SubSeq(LowerCaseLetters, i, i)
    ELSE c

RECURSIVE ToLowerCase(_)
ToLowerCase(s) ==
    IF Len(s) = 0 THEN ""
    ELSE IF Len(s) = 1 THEN LowerChar(s)
    ELSE LET h == Len(s) \div 2
         IN  ToLowerCase(SubSeq(s, 1, h)) \o ToLowerCase(SubSeq(s, h + 1, Len(s)))

\* String.prototype.includes
Includes(s, kw) == \E i \in 1..(Len(s) - Len(kw) + 1) : SubSeq(s, i, i + Len(kw) - 1) = kw

\* Array.prototype.some(keyword => s.includes(keyword))
SomeIncluded(s, kws) == \E kw \in kws : Includes(s, kw)

\* String.prototype.trim().length === 0
WhiteSpace == {" ", "\t", "\n"}
IsBlank(s) == \A i \in 1..Len(s) : SubSeq(s, i, i) \in WhiteSpace

\* what a value is worth in a condition, and in v || ''
Truthy(v) ==
    CASE v.type = "string" -> v.str # ""
      [] v.type = "number" -> v.num # 0
      [] v.type \in {"undefined", "null"} -> FALSE
      [] OTHER -> TRUE

prayerCreationKeywords ==
    {"create a prayer", "make a prayer", "write a prayer", "create me a prayer",
     "create me an", "write me a prayer", "make me a prayer", "generate a prayer",
     "help me pray"}

informationalKeywords ==
    {"what is", "what does", "what are", "what will", "what happens", "what happened",
     "who is", "who was", "who are", "where is", "where does", "when did", "when will",
     "how is", "how does", "why is", "why does", "why did",
     "explain", "define", "tell me about", "what's the meaning", "what means",
     "what's the difference", "difference between",
     "where in the bible", "where does the bible", "what verse", "which verse",
     "scripture says", "bible verse about", "biblical", "according to scripture",
     "give me a passage", "give me a verse", "show me a verse", "find me a verse",
     "give me a random", "random verse", "random passage", "any verse", "share a verse",
     "passage from", "verse from", "scripture from", "bible passage about",
     "do my", "does my", "will my", "can my", "do i get", "does god", "will god",
     "is it true", "is there", "are there", "do we go", "will we go", "can we",
     "am i saved", "are we saved", "do good deeds", "does faith", "will jesus"}

\* the phrases of isNotInformational (line 248)
prayerQuestionPhrases ==
    {"what is prayer", "explain prayer", "define prayer", "what does prayer", "what is pray"}

needsHelpIndicators ==
    {"i need", "i keep", "i cant", "i can't", "i dont", "i don't", "i struggle",
     "i'm struggling", "help me", "struggling with", "dealing with", "having trouble",
     "keep falling", "keep failing", "dont know what to do", "don't know what to do",
     "need guidance", "need advice", "need help", "falling into", "addicted to",
     "overcome", "stop doing", "break free", "get rid of"}

spiritualStruggles ==
    {"sin", "lust", "temptation", "anxiety", "depression", "fear", "worry", "anger",
     "pride", "addiction", "doubt", "faith", "prayer", "bible", "god", "jesus",
     "spiritual", "christian"}

casualWords ==
    {"hi", "hello", "hey", "thanks", "thank you", "ok", "okay", "yes", "no", "good",
     "great", "awesome", "cool", "nice", "wow", "amen", "bless", "ke", "k", "lol", "haha"}

VeryShortLength == 6
SingleWordLength == 8

\* keyword.toLowerCase() of lines 243 and 253
prayerCreationKeywordsLowered == {ToLowerCase(kw) : kw \in prayerCreationKeywords}
informationalKeywordsLowered == {ToLowerCase(kw) : kw \in informationalKeywords}

isPrayerCreationRequest(s) == SomeIncluded(s, prayerCreationKeywordsLowered)
containsPrayer(s) == Includes(s, "prayer") \/ Includes(s, "pray")
\* one more phrase, without an informational keyword in it
isNotInformationalNorToday(s) ==
    /\ \A ph \in prayerQuestionPhrases : ~Includes(s, ph)
    /\ ~Includes(s, "prayer today")

isNotInformational(s) == \A ph \in prayerQuestionPhrases : ~Includes(s, ph)

\* the creation phrases left out
isPrayerRequestWithoutCreation(s) == containsPrayer(s) /\ isNotInformational(s)

isPrayerRequest(s) == isPrayerCreationRequest(s) \/ (containsPrayer(s) /\ isNotInformational(s))

isInformationalRequest(s) == SomeIncluded(s, informationalKeywordsLowered)
indicatesNeedForHelp(s) == SomeIncluded(s, needsHelpIndicators)
isSpiritualContext(s) == SomeIncluded(s, spiritualStruggles)
containsCasualWord(s) == SomeIncluded(s, casualWords)
isVeryShortMessage(s) == Len(s) < VeryShortLength
isSingleWord(s) == ~Includes(s, " ") /\ Len(s) < SingleWordLength

\* the two negated conditions left out
isCasualMessageAnyContext(s) == isVeryShortMessage(s) \/ containsCasualWord(s) \/ isSingleWord(s)

\* the length tests left out
isCasualMessageByWord(s) ==
    containsCasualWord(s) /\ ~indicatesNeedForHelp(s) /\ ~isSpiritualContext(s)

isCasualMessage(s) ==
    /\ isVeryShortMessage(s) \/ containsCasualWord(s) \/ isSingleWord(s)
    /\ ~indicatesNeedForHelp(s)
    /\ ~isSpiritualContext(s)

\* the informational test made before the prayer test
TopicOfInformationalFirst(s) ==
    IF isInformationalRequest(s) THEN "informational"
    ELSE IF isPrayerRequest(s) THEN "prayer"
    ELSE IF isCasualMessage(s) THEN "conversational"
    ELSE "practical"

\* the if / else if chain of lines 293-301 on safeMessage
TopicOf(s) ==
    IF isPrayerRequest(s) THEN "prayer"
    ELSE IF isInformationalRequest(s) THEN "informational"
    ELSE IF isCasualMessage(s) THEN "conversational"
    ELSE "practical"

\* (message || '').toLowerCase() of line 239 is a TypeError for a value that
\* is truthy and not a string: only strings have toLowerCase
DetectionThrows(message) == Truthy(message) /\ message.type # "string"

safeMessage(message) == IF Truthy(message) THEN ToLowerCase(message.str) ELSE ""

\* the catch block falls back to another topic
DetectTopicFallsBackPractical(message) ==
    IF DetectionThrows(message)
    THEN [threw |-> TRUE, finalTopic |-> "practical"]
    ELSE [threw |-> FALSE, finalTopic |-> TopicOf(safeMessage(message))]

\* lines 214-320, the try / catch around the detection: the topic finalTopic holds after it, and
\* whether the catch block ran
DetectTopic(message) ==
    IF DetectionThrows(message)
    THEN [threw |-> TRUE, finalTopic |-> "conversational"]
    ELSE [threw |-> FALSE, finalTopic |-> TopicOf(safeMessage(message))]

----------------------------------------------------------------------------
(* The POST /ai/chat handler (lines 179-480), one statement group per step *)

MaxMessageLength == 1500
BadRequest == 400
PaymentRequired == 402
TooManyRequests == 429
InternalServerError == 500
Ok == 200

MaxWindowsChat == 3   \* short windows after the first in which requests arrive (SpecChat)
MaxPosts == 2         \* requests per behaviour (SpecPosts)

Body(message, history, topic, userId) ==
    [present |-> TRUE, message |-> message, history |-> history, topic |-> topic,
     userId |-> userId]

\* return reply.code(code).send({ error, ... })
Sent(h, code, error) ==
    [h EXCEPT !.pc = "replied",
              !.reply = [NoReply EXCEPT !.code = code, !.error = error, !.by = "handler"]]

\* A throw inside the handler's try block enters the catch block of line 459.
\* message, topic, finalTopic and conversationHistory are declared inside the
\* try block (lines 193, 214), so the catch block's read of message at line
\* 466 is a ReferenceError: the handler rejects and the framework's default
\* error handler answers 500.
Thrown(h) ==
    [h EXCEPT !.pc = "replied",
              !.reply = [NoReply EXCEPT !.code = InternalServerError,
                                        !.error = "Internal Server Error", !.by = "fastify"]]

\* the typeof and trim tests left out
ValidatedAnyTruthy(h) ==
    IF ~h.body.present
    THEN Sent(h, BadRequest, "Request body is required")
    ELSE IF ~Truthy(h.body.message)
    THEN Sent(h, BadRequest, "Message is required and must be a non-empty string")
    ELSE [h EXCEPT !.pc = "rateLimit"]

\* lines 188-200
Validated(h) ==
    IF ~h.body.present
    THEN Sent(h, BadRequest, "Request body is required")
    ELSE IF \/ ~Truthy(h.body.message)
            \/ h.body.message.type # "string"
            \/ IsBlank(h.body.message.str)
    THEN Sent(h, BadRequest, "Message is required and must be a non-empty string")
    ELSE [h EXCEPT !.pc = "rateLimit"]

\* the handler goes on whatever checkRateLimit returned
RateLimitedNever(h, res) == [h EXCEPT !.pc = "detect", !.checked = TRUE, !.rateLimitResult = res]

\* lines 203-212, res the value checkRateLimit returned
RateLimited(h, res) ==
    IF ~res.allowed
    THEN [h EXCEPT !.pc = "replied", !.checked = TRUE, !.rateLimitResult = res,
                   !.reply = [code |-> IF res.rateLimitExceeded
                                       THEN TooManyRequests ELSE PaymentRequired,
                              error |-> res.error,
                              rateLimitExceeded |-> res.rateLimitExceeded,
                              dailyLimitExceeded |-> res.dailyLimitExceeded,
                              retryAfter |-> res.retryAfter,
                              by |-> "handler"]]
    ELSE [h EXCEPT !.pc = "detect", !.checked = TRUE, !.rateLimitResult = res]

\* the topic the client sent is used when there is one
DetectedUnlessGiven(h) ==
    LET d == DetectTopic(h.body.message)
    IN  [h EXCEPT !.pc = "length", !.threw = d.threw,
                  !.finalTopic = IF h.body.topic # "" THEN h.body.topic ELSE d.finalTopic]

\* lines 214-320
Detected(h) ==
    LET d == DetectTopic(h.body.message)
    IN  [h EXCEPT !.pc = "length", !.finalTopic = d.finalTopic, !.threw = d.threw]

\* lines 322-326: message.length of a value that is not a string is undefined,
\* and undefined > 1500 is false
LengthChecked(h) ==
    IF h.body.message.type = "string" /\ Len(h.body.message.str) > MaxMessageLength
    THEN Sent(h, BadRequest, "Message too long")
    ELSE [h EXCEPT !.pc = "key"]

StartsWith(s, prefix) == Len(s) >= Len(prefix) /\ SubSeq(s, 1, Len(prefix)) = prefix

\* lines 329-343
KeyChecked(h, apiKey) ==
    IF apiKey = ""
    THEN Sent(h, InternalServerError, "AI service not configured")
    ELSE IF ~StartsWith(apiKey, "sk-")
    THEN Sent(h, InternalServerError, "AI service misconfigured")
    ELSE [h EXCEPT !.pc = "prepare"]

\* lines 483-558: the topic is not looked at, "Use the same dual-format prompt
\* for all topics"
buildSpiritualPrompt(topic) == "dual-format prompt"

\* lines 345-365: message.substring exists for a string only, and the map over
\* the history reads msg.role of every element
Prepared(h) ==
    IF h.body.message.type # "string" \/ h.body.history = "malformed"
    THEN Thrown(h)
    ELSE [h EXCEPT !.pc = "fetch", !.prompt = buildSpiritualPrompt(h.finalTopic)]

\* lines 370-449: what the model API did with the call, and the reply
ModelOutcomes == {"network error", "not ok", "bad json", "no content", "content"}

Responded(h, outcome) ==
    LET g == [h EXCEPT !.outcome = outcome]
    IN  CASE outcome = "network error" -> Thrown(g)
          [] outcome = "not ok" -> Sent(g, InternalServerError, "AI service temporarily unavailable")
          [] outcome = "bad json" -> Thrown(g)
          [] outcome = "no content" -> Sent(g, InternalServerError, "No response generated")
          [] OTHER -> Sent(g, Ok, "")

QuotaUnchanged ==
    UNCHANGED <<now, store, nextSweep, calls, last, accWin, accDay, seen, env, reqs, running,
                denied>>

\* a client posts a request; the previous one has been answered
Received(body) ==
    /\ http.pc \in {"idle", "replied"}
    /\ http' = [NoHttp EXCEPT !.pc = "validate", !.body = body, !.usage = store,
                              !.prev = IF http.finalTopic # ""
                                       THEN [classified |-> TRUE, body |-> http.body,
                                             finalTopic |-> http.finalTopic,
                                             prompt |-> http.prompt]
                                       ELSE http.prev]
    /\ UNCHANGED <<now, store, nextSweep, last, accWin, accDay, seen, env, reqs, running,
                   denied>>

Receive(body) == Received(body) /\ calls' = calls

\* as Receive, the requests counted
Post(body) == calls < MaxPosts /\ calls' = calls + 1 /\ Received(body)

Validate == http.pc = "validate" /\ http' = Validated(http) /\ QuotaUnchanged

RateLimit ==
    /\ http.pc = "rateLimit"
    /\ calls' = calls
    /\ Evaluate(http.body.userId)
    /\ http' = RateLimited(http, ResultOf(store, http.body.userId, now))

Detect == http.pc = "detect" /\ http' = Detected(http) /\ QuotaUnchanged

CheckLength == http.pc = "length" /\ http' = LengthChecked(http) /\ QuotaUnchanged

CheckKey == http.pc = "key" /\ http' = KeyChecked(http, env.apiKey) /\ QuotaUnchanged

Prepare == http.pc = "prepare" /\ http' = Prepared(http) /\ QuotaUnchanged

\* await fetch(...) of line 373: the outbound call is made, the handler waits
Fetch ==
    /\ http.pc = "fetch"
    /\ http' = [http EXCEPT !.pc = "await", !.fetched = TRUE]
    /\ QuotaUnchanged

Respond(outcome) == http.pc = "await" /\ http' = Responded(http, outcome) /\ QuotaUnchanged

\* the clock moves between the handler's tasks, not inside one
TickChat == http.pc \in {"idle", "await", "replied"} /\ Tick

\* what the clients of SpecChat post
ChatBodies ==
    {NoBody, Body(Str("   "), "absent", "", "u1"), Body(Str("Hey"), "absent", "", "u1")}

InitChat ==
    InitFrom([ids |-> {"u1"}, times |-> TimePoints(MaxWindowsChat, 0, {0}),
              bodies |-> ChatBodies, apiKey |-> "sk-test"], NoHttp)

NextChat ==
    \/ TickChat
    \/ \E body \in env.bodies : Receive(body)
    \/ Validate
    \/ RateLimit
    \/ Detect
    \/ CheckLength
    \/ CheckKey
    \/ Prepare
    \/ Fetch
    \/ \E outcome \in ModelOutcomes : Respond(outcome)

SpecChat == InitChat /\ [][NextChat]_vars

\* C11: checkRateLimit is called before the call of the model API; a request
\* it rejects is answered without a call of the model API, with 429 and the
\* retryAfter of the decision for a burst rejection and with 402 for a
\* rejection by the daily request or the daily cost limit.
C11_QuotaBeforeModelCall ==
    /\ http.fetched => http.checked /\ http.rateLimitResult.allowed
    /\ (http.checked /\ ~http.rateLimitResult.allowed) =>
           /\ ~http.fetched
           /\ http.pc = "replied"
           /\ http.rateLimitResult.rateLimitExceeded =>
                  /\ http.reply.code = TooManyRequests
                  /\ http.reply.retryAfter = http.rateLimitResult.retryAfter
                  /\ http.reply.retryAfter >= 1
           /\ http.rateLimitResult.dailyLimitExceeded =>
                  http.reply.code = PaymentRequired
           /\ http.rateLimitResult.rateLimitExceeded # http.rateLimitResult.dailyLimitExceeded

C11_Witness ==
    /\ http.checked
    /\ http.rateLimitResult.dailyLimitExceeded
    /\ http.reply.code = PaymentRequired
    /\ store["u1"].dailyRequests = DailyLimit

----------------------------------------------------------------------------
(* The detection of lines 214-320 applied to message values, those the     *)
(* validation of line 196 lets through and those it does not               *)

Openers == {"", "Hey ", "What is ", "EXPLAIN ", "I keep ", "Write me a ", "Friend ", "ok create me an "}
Subjects == {"prayer", "Pray", "grace", "anxiety", "lunch", "a b"}
Closers == {"", "?", " today"}

SpecExamples ==
    {"What does the Bible say about forgiveness?",
     "Can you write me a prayer for peace?",
     "What is prayer?",
     "What is prayer? Please write me a prayer",
     "I keep struggling with anxiety, what should I do?",
     "hey", "", "Hello there friend", "God", "Thanks, I need advice"}

DetectionInputs ==
    {Str(o \o sj \o c) : o \in Openers, sj \in Subjects, c \in Closers}
        \cup {Str(m) : m \in SpecExamples}
        \cup {Undefined, Null, Num(0), Num(42), EmptyObject}

\* the handler at line 214 with message bound to a value
AtDetection(message) ==
    [NoHttp EXCEPT !.pc = "detect", !.body = Body(message, "absent", "", "u1"), !.checked = TRUE]

InitDetection ==
    \E message \in DetectionInputs :
        InitFrom([ids |-> {"u1"}, times |-> {StartTime}, bodies |-> {}, apiKey |-> "sk-test"],
                 AtDetection(message))

NextDetection == Detect

SpecDetection == InitDetection /\ [][NextDetection]_vars

Topics == {"prayer", "informational", "conversational", "practical"}

\* the detection has run, without an exception
Classified == http.pc = "length" /\ ~http.threw

\* the lower-cased text the detection looked at
Text == safeMessage(http.body.message)

MessageIs(m) == http.body.message = Str(m)

\* the text has a prayer-creation phrase or the letters 'pray'
MentionsPrayer == SomeIncluded(Text, prayerCreationKeywords) \/ Includes(Text, "pray")

\* C16: the detection yields exactly one of the four topics, the first that
\* matches in the order isPrayerRequest -> prayer, isInformationalRequest ->
\* informational, isCasualMessage -> conversational, else practical. A message
\* with an informational keyword and no mention of prayer (no creation phrase,
\* no 'pray') is informational, also when it is casual or asks for help.
C16_FirstMatchTopic ==
    Classified =>
        /\ http.finalTopic \in Topics
        /\ isPrayerRequest(Text) => http.finalTopic = "prayer"
        /\ (~isPrayerRequest(Text) /\ isInformationalRequest(Text)) =>
               http.finalTopic = "informational"
        /\ (~isPrayerRequest(Text) /\ ~isInformationalRequest(Text) /\ isCasualMessage(Text)) =>
               http.finalTopic = "conversational"
        /\ (~isPrayerRequest(Text) /\ ~isInformationalRequest(Text) /\ ~isCasualMessage(Text)) =>
               http.finalTopic = "practical"
        /\ (SomeIncluded(Text, informationalKeywords) /\ ~MentionsPrayer) =>
               http.finalTopic = "informational"
        /\ MessageIs("What does the Bible say about forgiveness?") =>
               http.finalTopic = "informational"

\* an informational keyword and a prayer request in one message, in upper case
C16_Witness ==
    /\ Classified
    /\ MessageIs("EXPLAIN Pray today")
    /\ isInformationalRequest(Text)
    /\ isPrayerRequest(Text)
    /\ http.finalTopic = "prayer"

\* C17: the topic is prayer exactly when the lower-cased message has a
\* prayer-creation phrase, or has 'prayer' or 'pray' and none of the five
\* phrases that ask about prayer. 'Can you write me a prayer for peace?' is
\* prayer, 'What is prayer?' is informational, and a message with a phrase
\* asking about prayer and a creation phrase is prayer.
C17_PrayerRequest ==
    Classified =>
        /\ http.finalTopic = "prayer" <=>
               \/ \E kw \in prayerCreationKeywords : Includes(Text, kw)
               \/ /\ Includes(Text, "prayer") \/ Includes(Text, "pray")
                  /\ ~Includes(Text, "what is prayer")
                  /\ ~Includes(Text, "explain prayer")
                  /\ ~Includes(Text, "define prayer")
                  /\ ~Includes(Text, "what does prayer")
                  /\ ~Includes(Text, "what is pray")
        /\ MessageIs("Can you write me a prayer for peace?") => http.finalTopic = "prayer"
        /\ MessageIs("What is prayer?") => http.finalTopic = "informational"
        /\ MessageIs("What is prayer? Please write me a prayer") => http.finalTopic = "prayer"

C17_Witness ==
    /\ Classified
    /\ MessageIs("What is prayer? Please write me a prayer")
    /\ Includes(Text, "what is prayer")
    /\ Includes(Text, "write me a prayer")
    /\ http.finalTopic = "prayer"

\* C18: a message with a help indicator or a spiritual term is never
\* conversational, also when it is short, one word or has a casual word;
\* 'I keep struggling with anxiety, what should I do?' is practical.
C18_HelpOverridesCasual ==
    Classified =>
        /\ (SomeIncluded(Text, needsHelpIndicators) \/ SomeIncluded(Text, spiritualStruggles)) =>
               http.finalTopic \in {"prayer", "informational", "practical"}
        /\ MessageIs("I keep struggling with anxiety, what should I do?") =>
               http.finalTopic = "practical"

\* a three-letter word that is a spiritual term
C18_Witness ==
    /\ Classified
    /\ MessageIs("God")
    /\ isVeryShortMessage(Text) /\ isSingleWord(Text)
    /\ http.finalTopic = "practical"

\* C19: a message that does not mention prayer (no creation phrase, no
\* 'pray'), has no informational keyword, no help indicator and no spiritual
\* term, and is shorter than 6 characters (the empty string, and null or
\* undefined, which count as empty), or one word shorter than 8 characters, or
\* has a casual word, is conversational; so are 'hey' and ''.
C19_CasualIsConversational ==
    Classified =>
        /\ ( /\ ~MentionsPrayer
             /\ ~SomeIncluded(Text, informationalKeywords)
             /\ ~SomeIncluded(Text, needsHelpIndicators)
             /\ ~SomeIncluded(Text, spiritualStruggles)
             /\ \/ Len(Text) < VeryShortLength
                \/ ~Includes(Text, " ") /\ Len(Text) < SingleWordLength
                \/ SomeIncluded(Text, casualWords) ) =>
               http.finalTopic = "conversational"
        /\ MessageIs("hey") => http.finalTopic = "conversational"
        /\ MessageIs("") => http.finalTopic = "conversational"
        /\ http.body.message \in {Null, Undefined} => http.finalTopic = "conversational"

\* short, with a space and without a casual word
C19_Witness ==
    /\ Classified
    /\ MessageIs("a b")
    /\ ~containsCasualWord(Text)
    /\ ~isSingleWord(Text)
    /\ http.finalTopic = "conversational"

----------------------------------------------------------------------------
(* A few requests of any shape: several callers, topics, histories, a      *)
(* message over the length limit, bodies the validation refuses            *)

RECURSIVE Repeat(_, _)
Repeat(s, n) ==
    IF n = 0 THEN ""
    ELSE IF n % 2 = 0 THEN LET half == Repeat(s, n \div 2) IN half \o half
    ELSE s \o Repeat(s, n - 1)

\* one character more than the limit of line 322
LongMessage == Repeat("a", MaxMessageLength + 1)

PostMessages == {"Hey", "What is prayer?", "Write me a prayer", "I need advice today"}

PostBodies ==
    {Body(Str(m), "absent", "", "u1") : m \in PostMessages}
        \cup {Body(Str(m), "messages", "prayer", "") : m \in PostMessages}
        \cup {NoBody,
              Body(Undefined, "absent", "", "u1"),
              Body(Str("   "), "absent", "", "u1"),
              Body(Num(42), "absent", "", "u1"),
              Body(Str(LongMessage), "absent", "", "u1"),
              Body(Str("Hey"), "malformed", "", "u1")}

InitPosts ==
    InitFrom([ids |-> {"", "u1"}, times |-> TimePoints(1, 0, {0}),
              bodies |-> PostBodies, apiKey |-> "sk-test"], NoHttp)

NextPosts ==
    \/ TickChat
    \/ \E body \in env.bodies : Post(body)
    \/ Validate
    \/ RateLimit
    \/ Detect
    \/ CheckLength
    \/ CheckKey
    \/ Prepare
    \/ Fetch
    \/ \E outcome \in ModelOutcomes : Respond(outcome)

SpecPosts == InitPosts /\ [][NextPosts]_vars

\* C21: the detection is a function of the message alone: a request with the
\* message of the request before it gets the same topic, whatever the two
\* callers, the topics and histories they sent and the state of the store,
\* and the detection leaves the store as it is.
C21_DetectionByMessageOnly ==
    [][(http.pc = "detect" /\ http'.pc = "length") =>
           /\ store' = store
           /\ (http'.prev.classified /\ http'.prev.body.message = http'.body.message) =>
                  http'.finalTopic = http'.prev.finalTopic]_vars

C21_Witness ==
    /\ http.pc = "length"
    /\ http.prev.classified
    /\ http.prev.body.message = http.body.message
    /\ http.prev.body.userId # http.body.userId
    /\ http.prev.body.topic # http.body.topic
    /\ http.prev.body.history # http.body.history
    /\ http.usage # << >>
    /\ store # http.usage
    /\ http.finalTopic = "conversational"

\* C22: the detection is run only on messages of at most MaxMessageLength
\* (1500) characters: a longer message is refused before the detection.
C22_LengthCheckedBeforeDetection ==
    http.finalTopic # "" =>
        /\ http.body.message.type = "string"
        /\ Len(http.body.message.str) <= MaxMessageLength

\* C25: a request answered with 400 leaves the store as it was when the
\* request arrived.
C25_RefusedRequestIsFree ==
    (http.pc = "replied" /\ http.reply.code = BadRequest) => store = http.usage

\* C23: the system prompt is chosen by the topic: two requests with different
\* topics are sent different system prompts, two with the same topic the same.
C23_TopicPicksTemplate ==
    (http.prompt # "" /\ http.prev.prompt # "") =>
        (http.prompt = http.prev.prompt <=> http.finalTopic = http.prev.finalTopic)

\* C26: when the call of the model API or the parsing of its response throws,
\* the handler's catch block replies 500 with error 'Internal server error'.
C26_CatchBlockReplies ==
    (http.pc = "replied" /\ http.outcome \in {"network error", "bad json"}) =>
        /\ http.reply.code = InternalServerError
        /\ http.reply.by = "handler"
        /\ http.reply.error = "Internal server error"

\* C30: the detection of a request that passed the validation of line 196 (its
\* message is a string with a character that is not white space) does not
\* throw: the catch block of line 315 is never entered.
C30_DetectionNeverThrows ==
    /\ ~http.threw
    /\ http.pc \in {"rateLimit", "detect", "length"} =>
           /\ http.body.message.type = "string"
           /\ ~IsBlank(http.body.message.str)

\* a detection has run on the second request
C30_Witness ==
    /\ http.pc = "length"
    /\ http.finalTopic = "practical"
    /\ ~http.threw
    /\ calls = MaxPosts

\* C24: a run of the cleanup keeps every record whose dailyStart is the start
\* of the day of the run, unchanged.
C24_SweepKeepsToday ==
    [][last'.op = "sweep" =>
          \A k \in DOMAIN store :
              store[k].dailyStart = DayOf(now) =>
                  k \in DOMAIN store' /\ store'[k] = store[k]]_vars

\* C28: with the shipped limits every record of the store has dailyCost =
\* 9 * dailyRequests, and no call is rejected by the daily cost limit: when
\* dailyCost + 9 > 700 the daily request limit has been reached before.
C28_CostFollowsRequests ==
    /\ \A k \in DOMAIN store : store[k].dailyCost = EstimatedCost * store[k].dailyRequests
    /\ ~DailyCostRejection
    /\ Evaluated =>
           (RolledDailyCost + EstimatedCost > DailyCostLimit =>
                RolledDailyRequests >= DailyLimit)

\* the daily request limit rejects at the highest cost a record can hold
C28_Witness ==
    /\ DailyRequestRejection
    /\ store[CallKey].dailyRequests = DailyLimit
    /\ store[CallKey].dailyCost = EstimatedCost * DailyLimit
    /\ store[CallKey].dailyCost + EstimatedCost <= DailyCostLimit

\* C29: a message with 'pray' in its lower-cased text is prayer or
\* informational: each of the five phrases that ask about prayer has an
\* informational keyword in it.
C29_PrayIsPrayerOrInformational ==
    /\ \A ph \in prayerQuestionPhrases : SomeIncluded(ph, informationalKeywords)
    /\ (Classified /\ Includes(Text, "pray")) =>
           http.finalTopic \in {"prayer", "informational"}

C29_Witness ==
    /\ Classified
    /\ MessageIs("What is prayer?")
    /\ Includes(Text, "pray")
    /\ ~isNotInformational(Text)
    /\ http.finalTopic = "informational"

\* C27: the call a caller makes next after a burst rejection at time at with
\* retryAfter r, if made at at + r * 1000 ms or later, is not rejected by the
\* burst limit: it is accepted or rejected by a daily limit. The call a caller
\* makes next after a daily rejection, if made on a later day, is accepted.
C27_RetryAfterHonoured ==
    Evaluated =>
        LET d == denied[CallKey]
        IN  /\ (d.prevKind = "burst" /\ now >= d.prevAt + d.prevRetryAfter * MsPerSecond) =>
                   /\ ~BurstRejection
                   /\ Accepted \/ last.res.dailyLimitExceeded
            /\ (d.prevKind = "daily" /\ DayOf(now) > DayOf(d.prevAt)) => Accepted

\* rejected in the last millisecond of a window, accepted one window later
C27_Witness ==
    /\ Accepted
    /\ denied[CallKey].prevKind = "burst"
    /\ denied[CallKey].prevRetryAfter = 1
    /\ now = denied[CallKey].prevAt + WindowMs

\* C12: every record of the store has requests <= MaxRequests (20),
\* dailyRequests <= DailyLimit (75) and dailyCost <= DailyCostLimit (700).
C12_StoredWithinLimits ==
    \A k \in DOMAIN store :
        /\ store[k].requests <= MaxRequests
        /\ store[k].dailyRequests <= DailyLimit
        /\ store[k].dailyCost <= DailyCostLimit

C12_Witness ==
    \E k \in DOMAIN store :
        /\ store[k].requests = MaxRequests
        /\ store[k].dailyRequests = DailyLimit

\* C13: the store has one record per key and none under the empty id: a call
\* of evaluate or of status without an id, like one with the id 'anonymous',
\* reads and writes the record stored under 'anonymous'.
C13_AnonymousBucket ==
    /\ DOMAIN store \subseteq {"anonymous", "u1"}
    /\ (Evaluated /\ last.userId \in {"", "anonymous"}) =>
           /\ "anonymous" \in DOMAIN store
           /\ Accepted => store["anonymous"].dailyRequests = RolledDailyRequests + 1
           /\ Rejected => store["anonymous"].dailyRequests = RolledDailyRequests
    /\ (last.op = "status" /\ last.userId \in {"", "anonymous"}) =>
           IF "anonymous" \in DOMAIN store
           THEN /\ last.snap.status = "data"
                /\ last.snap.requests = store["anonymous"].requests
                /\ last.snap.dailyRequests = store["anonymous"].dailyRequests
           ELSE last.snap = NoData

C13_Witness ==
    /\ Accepted
    /\ last.userId = ""
    /\ last.had
    /\ store["anonymous"].dailyRequests = 3
    /\ "u1" \in DOMAIN store
    /\ seen["anonymous"] = NotSeen

\* C14: the windowStart of every record of the store is a multiple of WindowMs
\* and its dailyStart a multiple of DayMs, and neither is later than now.
C14_AlignedStarts ==
    \A k \in DOMAIN store :
        /\ store[k].windowStart % WindowMs = 0
        /\ store[k].dailyStart % DayMs = 0
        /\ store[k].windowStart <= now /\ now - store[k].windowStart >= 0
        /\ store[k].dailyStart <= store[k].windowStart

C14_Witness ==
    /\ Evaluated
    /\ now % WindowMs # 0
    /\ store[CallKey].windowStart = WindowOf(now)
    /\ store[CallKey].windowStart > last.before.windowStart
    /\ store[CallKey].dailyStart = DayOf(now)

\* C15: a burst rejection at time now carries as retryAfter the time to the
\* end of the caller's short window, windowStart + WindowMs - now, in whole
\* seconds rounded up; it is at least 1 and at most WindowMs / 1000 (120).
C15_RetryAfter ==
    BurstRejection =>
        LET left == store[CallKey].windowStart + WindowMs - now
        IN  /\ last.res.retryAfter * MsPerSecond >= left
            /\ (last.res.retryAfter - 1) * MsPerSecond < left
            /\ last.res.retryAfter >= 1
            /\ last.res.retryAfter * MsPerSecond <= WindowMs

C15_Witness ==
    /\ BurstRejection
    /\ store[CallKey].windowStart + WindowMs - now = 1
    /\ last.res.retryAfter = 1

====
